---------------------------- MODULE Spec2Model ----------------------------
(***************************************************************************)
(* Excel -> payslip PDF converter (excel_to_pdf.py).                       *)
(*                                                                         *)
(* The model covers the Tk main thread (drop / browse / convert / cancel   *)
(* handlers and the callbacks the workers post with .after), the worker    *)
(* threads started by _convert, and the pure helpers the worker uses       *)
(* (read_excel, get, the file-name construction of create_payslip).        *)
(*                                                                         *)
(* Text is a sequence of one-character strings.  A spreadsheet cell is a   *)
(* tagged text: <<"nan">> (empty cell), <<"num", digits...>> (numeric      *)
(* cell, the digits are what str() prints) or <<"str", chars...>>.         *)
(***************************************************************************)
EXTENDS Integers, Sequences, FiniteSets, TLC

\* ------------------------------------------------------------------ bounds
\* Largest number of data rows of a workbook.
MaxRows == 2
\* Largest number of conversions (worker threads) the user starts.
MaxRuns == 2
\* Largest number of progress callbacks waiting for the event loop when a
\* worker posts the next two.
MaxPending == 2

\* ------------------------------------------------------------ text and cells
NaN == <<"nan">>
Raised == <<"raise">>

IsNa(v) == v[1] = "nan"

\* str(v) of a cell value.
Str(v) == IF IsNa(v) THEN <<"n", "a", "n">> ELSE Tail(v)

\* c.isalnum() on the characters the model uses.
IsAlnum(c) == c \in {"a", "b", "c", "d", "e", "f", "p", "0", "1", "2", "7"}

IsSpace(c) == c = " "

\* s.strip(): leading and trailing white space removed.
RECURSIVE LStrip(_)
LStrip(s) == IF s # <<>> /\ IsSpace(Head(s)) THEN LStrip(Tail(s)) ELSE s

RECURSIVE RStrip(_)
RStrip(s) ==
    IF s # <<>> /\ IsSpace(s[Len(s)]) THEN RStrip(SubSeq(s, 1, Len(s) - 1)) ELSE s

Strip(s) == RStrip(LStrip(s))

\* ------------------------------------------------------------------ inputs
name_column == "name"
code_col == "code"

\* Values of the name column: "a", "a /" (another name, "a" once sanitized),
\* empty cell.
NameCells == {NaN, <<"str", "a">>, <<"str", "a", " ", "/">>}

\* Values of the personnel-code column: empty, 7.0 (a numeric column with a
\* gap is read as floats), "-".
CodeCells == {NaN, <<"num", "7", ".", "0">>, <<"str", "-">>}

CellsOf(col) == IF col = name_column THEN NameCells ELSE CodeCells

RowsOver(cols) == {r \in [cols -> NameCells \cup CodeCells] :
                      \A c \in cols : r[c] \in CellsOf(c)}

TablesOver(cols) ==
    [cols : {cols},
     rows : UNION {[1..n -> RowsOver(cols)] : n \in 0..MaxRows}]

\* Every table read_excel can return: the recognised columns it has, its rows.
Tables == UNION {TablesOver(cols) : cols \in SUBSET {name_column, code_col}}

\* File extensions of the workbooks the user selects; ".txt" is dropped too.
ExcelExts == {".xls", ".xlsx", ".xlsb"}

\* The workbook on disk: its extension and the table a reader gets from it.
\* The table does not depend on the backend that reads it, so the tables vary
\* under one extension and the other extensions carry the empty workbook.
Books ==
    [ext : {".xlsx"}, data : Tables]
        \cup [ext : ExcelExts,
              data : {[cols |-> {name_column, code_col}, rows |-> <<>>]}]

\* The workbooks of the sessions with several conversions: every row has a
\* name and the personnel code 7.0.
CodedBooks ==
    {b \in Books : /\ b.ext = ".xlsx"
                   /\ b.data.cols = {name_column, code_col}
                   /\ \A i \in 1..Len(b.data.rows) :
                         /\ b.data.rows[i][code_col] = <<"num", "7", ".", "0">>
                         /\ b.data.rows[i][name_column] # NaN}

\* uuid.uuid4().hex[:4]: two of the 16^4 values.
Suffixes == {<<"0", "0", "0", "0">>, <<"b", "e", "e", "f">>}

\* ------------------------------------------------------------ pure helpers
\* read_excel(fp): the outcomes of one call.  Any backend may fail on the
\* file (unreadable, corrupt, not the format its extension says); ".xlsb"
\* needs pyxlsb and raises ImportError when it is not installed.
read_excel(book) ==
    LET engine == IF book.ext = ".xlsb" THEN "pyxlsb"
                  ELSE IF book.ext \in {".xlsx", ".xlsm", ".xlsb"} THEN "openpyxl"
                  ELSE "xlrd"
        errors == IF engine = "pyxlsb" THEN {"ImportError", "ReadError"}
                  ELSE {"ReadError"}
    IN  {[raised |-> e, df |-> [cols |-> {}, rows |-> <<>>]] : e \in errors}
        \cup {[raised |-> "", df |-> book.data]}

\* get without the pd.isna test.
getWithoutIsna(df, col, default) ==
    IF col \notin df.cols THEN default
    ELSE IF Len(df.rows) = 0 THEN Raised
    ELSE df.rows[1][col]

\* get(df, col, default): first row's cell, the default for a missing column
\* (KeyError) or a NaN cell.  IndexError (no row) is not caught.
get(df, col, default) ==
    IF col \notin df.cols THEN default
    ELSE IF Len(df.rows) = 0 THEN Raised
    ELSE LET v == df.rows[1][col]
         IN  IF IsNa(v) THEN default ELSE v

\* df[col].dropna(): the non-null cells of a column, in row order.
RECURSIVE dropna(_)
dropna(cells) ==
    IF cells = <<>> THEN <<>>
    ELSE IF IsNa(Head(cells)) THEN dropna(Tail(cells))
    ELSE <<Head(cells)>> \o dropna(Tail(cells))

InSeq(x, s) == \E i \in 1..Len(s) : s[i] = x

\* Series.unique(): distinct values in order of first appearance.
RECURSIVE uniqueFrom(_, _)
uniqueFrom(cells, seen) ==
    IF cells = <<>> THEN seen
    ELSE IF InSeq(Head(cells), seen) THEN uniqueFrom(Tail(cells), seen)
    ELSE uniqueFrom(Tail(cells), Append(seen, Head(cells)))

\* unique that keeps every occurrence.
uniqueKeepsRepeats(cells) == cells

unique(cells) == uniqueFrom(cells, <<>>)

Column(df, col) == [i \in 1..Len(df.rows) |-> df.rows[i][col]]

\* df[df[name_col] == name]
RowsNamed(df, name) ==
    [cols |-> df.cols,
     rows |-> SelectSeq(df.rows, LAMBDA r : r[name_column] = name)]

\* The characters create_payslip keeps of the name.
Keeps(c) == IsAlnum(c) \/ c \in {" ", "_", "-"}

safe_name(person_name) == Strip(SelectSeq(person_name, Keeps))

\* The separator the f-string puts after the name: U+2011.
Sep == <<"U+2011">>
DotPdf == <<".", "p", "d", "f">>

\* person_code = str(get(person_df, code_col, ""))
person_code(person_df) == Str(get(person_df, code_col, <<"str">>))

HasCode(person_df) ==
    person_code(person_df) # <<>> /\ person_code(person_df) # <<"-">>

\* The file name of one employee's document, before the extension; suffix is
\* the value uuid4 yields, used when there is no personnel code.
filestem(person_df, suffix) ==
    safe_name(Str(person_df.rows[1][name_column])) \o Sep \o
        (IF HasCode(person_df) THEN person_code(person_df) ELSE suffix)

\* pdf_path, relative to the output directory.
pdf_path(person_df, suffix) == filestem(person_df, suffix) \o DotPdf

\* ------------------------------------------------------------------- state
VARIABLES
    book,            \* the workbook the user selects (fixed during a session)
    file_path,       \* self.file_path: "" or the selected file
    file_lbl,        \* text of the file label
    convert_btn,     \* state of the Convert button
    cancel_btn,      \* state of the Cancel button
    prog_value,      \* self.prog["value"]
    prog_maximum,    \* self.prog["maximum"]
    stat_lbl,        \* status label: <<>> or <<i, total, name>>
    stop_requested,  \* self._stop_requested
    current_thread,  \* self._current_thread: 0 (None) or a thread
    afterq,          \* callbacks posted with .after(0, ...), oldest first
    th,              \* the locals and position of every worker thread
    out_dir,         \* output directory: exists, the pdf paths in it
    log,             \* converter_error.log: one entry per append
    direct           \* widgets a worker thread used without .after

vars == <<book, file_path, file_lbl, convert_btn, cancel_btn, prog_value,
          prog_maximum, stat_lbl, stop_requested, current_thread, afterq,
          th, out_dir, log, direct>>

gui == <<file_path, file_lbl, convert_btn, cancel_btn, prog_value,
         prog_maximum, stat_lbl, stop_requested, current_thread>>

Threads == 1..MaxRuns

NoDf == [cols |-> {}, rows |-> <<>>]
NoMsg == [kind |-> "none", ok |-> 0, bad |-> 0, cancelled |-> FALSE]

\* A thread that _convert has not created yet.
NewThread ==
    [pc |-> "new", df |-> NoDf, names |-> <<>>, idx |-> 0, ok |-> 0,
     bad |-> 0, brk |-> FALSE, exc |-> "", calls |-> <<>>, msg |-> NoMsg]

InitWith(books) ==
    /\ book \in books
    /\ file_path = ""
    /\ file_lbl = "No file selected"
    /\ convert_btn = "disabled"
    /\ cancel_btn = "disabled"
    /\ prog_value = 0
    /\ prog_maximum = 100
    /\ stat_lbl = <<>>
    /\ stop_requested = FALSE
    /\ current_thread = 0
    /\ afterq = <<>>
    /\ th = [w \in Threads |-> NewThread]
    /\ out_dir = [exists |-> FALSE, pdfs |-> {}]
    /\ log = <<>>
    /\ direct = {}

\* A session on any workbook, and one on a workbook with every code filled in.
InitBatch == InitWith(Books)
Init == InitWith(CodedBooks)

Started == {w \in Threads : th[w].pc # "new"}
Alive == {w \in Threads : th[w].pc \notin {"new", "done"}}

\* -------------------------------------------------------------- main thread
\* _load_file(path)
LoadFile(path) ==
    /\ file_path' = path
    /\ file_lbl' = "Selected"
    /\ convert_btn' = "normal"
    /\ UNCHANGED <<book, cancel_btn, prog_value, prog_maximum, stat_lbl,
                   stop_requested, current_thread, afterq, th, out_dir, log,
                   direct>>

\* _on_drop(ev): an Excel file is loaded, anything else is refused.
OnDrop ==
    \E fp \in {book.ext, ".txt"} :
        IF fp \in {".xls", ".xlsx", ".xlsm", ".xlsb"}
        THEN LoadFile(fp)
        ELSE UNCHANGED vars

\* _browse(): the dialog returns a file or "" (dismissed).
Browse ==
    \E fp \in {book.ext, ""} :
        IF fp # "" THEN LoadFile(fp) ELSE UNCHANGED vars

\* _convert(): the Convert button's command; a disabled button does not call it.
Convert(runs) ==
    /\ convert_btn = "normal"
    /\ Cardinality(Started) < runs
    /\ IF file_path = ""
       THEN UNCHANGED vars
       ELSE /\ convert_btn' = "disabled"
            /\ cancel_btn' = "normal"
            /\ prog_value' = 0
            /\ stat_lbl' = <<>>
            /\ stop_requested' = FALSE
            /\ current_thread' = Cardinality(Started) + 1
            /\ th' = [th EXCEPT ![Cardinality(Started) + 1].pc = "read"]
            /\ UNCHANGED <<book, file_path, file_lbl, prog_maximum, afterq,
                           out_dir, log, direct>>

\* _cancel(): the Cancel button's command.
Cancel ==
    /\ cancel_btn = "normal"
    /\ stop_requested' = TRUE
    /\ UNCHANGED <<book, file_path, file_lbl, convert_btn, cancel_btn,
                   prog_value, prog_maximum, stat_lbl, current_thread, afterq,
                   th, out_dir, log, direct>>

\* The event loop runs the oldest callback a worker posted with .after(0, ...).
RunAfter ==
    /\ afterq # <<>>
    /\ LET cb == Head(afterq)
       IN  /\ stat_lbl' = IF cb.widget = "stat_lbl" THEN cb.arg ELSE stat_lbl
           /\ prog_value' = IF cb.widget = "prog" THEN cb.arg ELSE prog_value
           /\ convert_btn' =
                 IF cb.widget = "convert_btn" THEN cb.arg ELSE convert_btn
           /\ cancel_btn' =
                 IF cb.widget = "cancel_btn" THEN cb.arg ELSE cancel_btn
    /\ afterq' = Tail(afterq)
    /\ UNCHANGED <<book, file_path, file_lbl, prog_maximum, stop_requested,
                   current_thread, th, out_dir, log, direct>>

\* ------------------------------------------------------------ worker thread
Set(w, t) == th' = [th EXCEPT ![w] = t]

\* A handler that swallows the exception and goes on to the summary.
OnFatalSwallowed(t, e) == [t EXCEPT !.pc = "summary", !.exc = e]

\* An exception that reaches the worker's outer "except Exception as exc".
OnFatal(t, e) == [t EXCEPT !.pc = "error", !.exc = e]

\* names = df[self.name_column].dropna().unique()
NamesOf(df) == unique(dropna(Column(df, name_column)))

\* Lines 458-473: load the table, check the name column, make the output
\* directory, list the names, size the progress bar, read the three entries.
WorkerRead(w) ==
    /\ th[w].pc = "read"
    /\ \E r \in read_excel(book) :
          IF r.raised # ""
          THEN /\ Set(w, OnFatal(th[w], r.raised))
               /\ UNCHANGED <<book, gui, afterq, out_dir, log, direct>>
          ELSE IF name_column \notin r.df.cols
          THEN /\ Set(w, OnFatal([th[w] EXCEPT !.df = r.df], "ValueError"))
               /\ UNCHANGED <<book, gui, afterq, out_dir, log, direct>>
          ELSE /\ out_dir' = [out_dir EXCEPT !.exists = TRUE]
               /\ prog_maximum' = Len(NamesOf(r.df))
               /\ direct' = direct \cup {"prog", "ent_company", "ent_period",
                                         "ent_disclaimer"}
               /\ Set(w, [th[w] EXCEPT !.df = r.df, !.names = NamesOf(r.df),
                                       !.idx = 0, !.ok = 0, !.bad = 0,
                                       !.pc = "loop"])
               /\ UNCHANGED <<book, file_path, file_lbl, convert_btn,
                              cancel_btn, prog_value, stat_lbl, stop_requested,
                              current_thread, afterq, log>>

\* Lines 475-484: the head of one iteration: the loop ends when the names are
\* exhausted, breaks on the stop flag, or posts the two progress callbacks.
WorkerLoop(w) ==
    /\ th[w].pc = "loop"
    /\ IF th[w].idx = Len(th[w].names)
       THEN /\ Set(w, [th[w] EXCEPT !.pc = "summary"])
            /\ UNCHANGED afterq
       ELSE IF stop_requested
       THEN /\ Set(w, [th[w] EXCEPT !.pc = "summary", !.brk = TRUE])
            /\ UNCHANGED afterq
       ELSE /\ Len(afterq) + 2 <= MaxPending
            /\ Set(w, [th[w] EXCEPT !.pc = "render", !.idx = @ + 1])
            /\ afterq' = afterq \o
                 << [widget |-> "stat_lbl",
                     arg |-> <<th[w].idx + 1, Len(th[w].names),
                               th[w].names[th[w].idx + 1]>>],
                    [widget |-> "prog", arg |-> th[w].idx + 1] >>
    /\ UNCHANGED <<book, gui, out_dir, log, direct>>

\* Lines 486-495: create_payslip for the current name.  It builds the path,
\* then either writes the document (ok += 1) or raises (bad += 1).
WorkerRender(w) ==
    /\ th[w].pc = "render"
    /\ LET name == th[w].names[th[w].idx]
           person_df == RowsNamed(th[w].df, name)
       IN  \E suffix \in Suffixes, raises \in BOOLEAN :
              LET path == pdf_path(person_df, suffix)
                  call == [name |-> name, path |-> path, ok |-> ~raises]
              IN  IF raises
                  THEN /\ Set(w, [th[w] EXCEPT !.pc = "log", !.bad = @ + 1,
                                               !.calls = Append(@, call)])
                       /\ UNCHANGED out_dir
                  ELSE /\ Set(w, [th[w] EXCEPT !.pc = "loop", !.ok = @ + 1,
                                               !.calls = Append(@, call)])
                       /\ out_dir' = [out_dir EXCEPT !.pdfs = @ \cup {path}]
    /\ UNCHANGED <<book, gui, afterq, log, direct>>

\* Lines 497-499: the handler appends the entry to converter_error.log; an
\* error of open() or write() there leaves the loop for the outer handler.
WorkerLog(w) ==
    /\ th[w].pc = "log"
    /\ \E raises \in BOOLEAN :
          IF raises
          THEN /\ Set(w, OnFatal(th[w], "OSError"))
               /\ UNCHANGED log
          ELSE /\ Set(w, [th[w] EXCEPT !.pc = "loop"])
               /\ log' = Append(log, [thread |-> w,
                                      name |-> th[w].names[th[w].idx]])
    /\ UNCHANGED <<book, gui, afterq, out_dir, direct>>

\* Lines 501-507: the summary dialog, shown by the worker.
WorkerSummary(w) ==
    /\ th[w].pc = "summary"
    /\ Set(w, [th[w] EXCEPT !.pc = "finally",
                            !.msg = [kind |-> "info", ok |-> th[w].ok,
                                     bad |-> th[w].bad,
                                     cancelled |-> stop_requested]])
    /\ direct' = direct \cup {"messagebox"}
    /\ UNCHANGED <<book, gui, afterq, out_dir, log>>

\* Lines 511-513: the error dialog, shown by the worker.
WorkerError(w) ==
    /\ th[w].pc = "error"
    /\ Set(w, [th[w] EXCEPT !.pc = "finally",
                            !.msg = [kind |-> "error", ok |-> 0, bad |-> 0,
                                     cancelled |-> FALSE]])
    /\ direct' = direct \cup {"messagebox"}
    /\ UNCHANGED <<book, gui, afterq, out_dir, log>>

\* Lines 514-518: post the three resets, forget the thread.
WorkerFinally(w) ==
    /\ th[w].pc = "finally"
    /\ Set(w, [th[w] EXCEPT !.pc = "done"])
    /\ afterq' = afterq \o
         << [widget |-> "prog", arg |-> 0],
            [widget |-> "convert_btn", arg |-> "normal"],
            [widget |-> "cancel_btn", arg |-> "disabled"] >>
    /\ current_thread' = 0
    /\ UNCHANGED <<book, file_path, file_lbl, convert_btn, cancel_btn,
                   prog_value, prog_maximum, stat_lbl, stop_requested,
                   out_dir, log, direct>>

Worker(w) ==
    \/ WorkerRead(w)
    \/ WorkerLoop(w)
    \/ WorkerRender(w)
    \/ WorkerLog(w)
    \/ WorkerSummary(w)
    \/ WorkerError(w)
    \/ WorkerFinally(w)

\* A session: the user's events, the event loop, the workers.
Next ==
    \/ OnDrop
    \/ Browse
    \/ Convert(MaxRuns)
    \/ Cancel
    \/ RunAfter
    \/ \E w \in Threads : Worker(w)

Spec == Init /\ [][Next]_vars

\* A session with one conversion (one batch).
NextBatch ==
    \/ OnDrop
    \/ Browse
    \/ Convert(1)
    \/ Cancel
    \/ RunAfter
    \/ \E w \in Threads : Worker(w)

SpecBatch == InitBatch /\ [][NextBatch]_vars

\* ------------------------------------------------------------------ claims
LoadErrors == {"ImportError", "ReadError"}

\* The worker has left the per-employee loop through the summary.
Summarised(w) == th[w].msg.kind = "info"

\* Entries of converter_error.log appended by worker w.
LogEntries(w) == Cardinality({i \in 1..Len(log) : log[i].thread = w})

\* Names for which worker w called create_payslip, in call order.
Visited(w) == [i \in 1..Len(th[w].calls) |-> th[w].calls[i].name]

\* Row of the first appearance of a value in a column.
FirstIndex(cells, x) ==
    CHOOSE k \in 1..Len(cells) : cells[k] = x /\ \A j \in 1..(k - 1) : cells[j] # x

\* C1: in a batch without render error and without cancellation, N distinct
\* names leave N documents in the output directory: no two names share a path.
C1_EveryNameItsOwnDocument ==
    \A w \in Threads :
        (th[w].pc = "done" /\ Summarised(w) /\ th[w].bad = 0 /\ ~th[w].brk
            /\ ~th[w].msg.cancelled)
        => Cardinality(out_dir.pdfs) = Len(NamesOf(th[w].df))

\* C2: a failure for one employee never ends the batch: a worker that entered
\* the loop and was not cancelled attempts every name, reaches the summary,
\* and has appended one log entry per failed employee.
C2_FailureNeverAbortsBatch ==
    \A w \in Threads :
        (th[w].pc = "done" /\ th[w].exc \notin LoadErrors \cup {"ValueError"}
            /\ ~th[w].brk)
        => /\ Len(th[w].calls) = Len(th[w].names)
           /\ Summarised(w)
           /\ LogEntries(w) = th[w].bad

\* C3: a worker whose loop was cut short by a cancel request reports it: the
\* summary carries the cancelled marker, the succeeded count is at most the
\* number of employees processed, and the documents written are kept.
C3_CancelledRunIsReported ==
    \A w \in Threads :
        (Summarised(w) /\ th[w].brk)
        => /\ th[w].msg.cancelled
           /\ th[w].msg.ok <= Len(th[w].calls)
           /\ Len(th[w].calls) < Len(th[w].names)
           /\ \A i \in 1..Len(th[w].calls) :
                 th[w].calls[i].ok => th[w].calls[i].path \in out_dir.pdfs

\* The run of worker w met a fatal error: read_excel raised, or the table it
\* loaded has no name column.
Fatal(w) ==
    \/ th[w].exc \in LoadErrors
    \/ th[w].pc \notin {"new", "read"} /\ th[w].exc = "ValueError"

\* C4: a fatal error ends the run before any output: no call of
\* create_payslip, no iteration, no document, no log entry, and the error
\* dialog instead of the summary.
C4_FatalAbortsBeforeOutput ==
    \A w \in Threads :
        /\ Fatal(w)
           => /\ th[w].calls = <<>>
              /\ th[w].idx = 0
              /\ th[w].pc \in {"error", "finally", "done"}
              /\ th[w].msg.kind = IF th[w].pc = "error" THEN "none" ELSE "error"
              /\ out_dir.pdfs = {}
              /\ log = <<>>
        /\ (th[w].pc \notin {"new", "read"} /\ name_column \notin book.data.cols)
           => Fatal(w)

C4_Witness ==
    \E w \in Threads :
        /\ th[w].pc = "done"
        /\ th[w].exc = "ValueError"
        /\ th[w].msg.kind = "error"
        /\ Len(book.data.rows) > 0

\* C5: at most one worker thread is alive at any time.
C5_AtMostOneWorker == Cardinality(Alive) <= 1

\* The table create_payslip gets for the i-th name of worker w.
GroupOf(w, i) == RowsNamed(th[w].df, th[w].names[i])

Defaults == {<<"str">>, <<"str", "-">>, <<"num", "0">>}

\* C6: get on an employee's group returns the default for a missing column
\* and for an empty first cell, the first row's cell unchanged otherwise, and
\* never raises.
C6_GetIsTotal ==
    \A w \in Threads : \A i \in 1..Len(th[w].names) :
        \A col \in {name_column, code_col, "phone"} : \A d \in Defaults :
            LET g == GroupOf(w, i)
                r == get(g, col, d)
            IN  /\ r # Raised
                /\ IF col \notin g.cols THEN r = d
                   ELSE IF g.rows[1][col] = NaN THEN r = d
                   ELSE r = g.rows[1][col]

\* An employee without personnel code was rendered: the lookup gave the
\* default, and the file name ends in the random suffix.
C6_Witness ==
    \E w \in Threads : \E i \in 1..Len(th[w].calls) :
        LET g == GroupOf(w, i)
        IN  /\ code_col \in g.cols
            /\ g.rows[1][code_col] = NaN
            /\ get(g, code_col, <<"str">>) = <<"str">>
            /\ \E s \in Suffixes : th[w].calls[i].path = pdf_path(g, s)

\* The file name without its ".pdf".
Stem(path) == SubSeq(path, 1, Len(path) - Len(DotPdf))

\* C7: the file name of every document, before the extension, has only
\* alphanumerics, space, underscore and hyphen (the separator counts as one).
C7_FilenameOnlyAllowedChars ==
    \A w \in Threads : \A i \in 1..Len(th[w].calls) :
        \A j \in 1..Len(Stem(th[w].calls[i].path)) :
            \/ Keeps(Stem(th[w].calls[i].path)[j])
            \/ Stem(th[w].calls[i].path)[j] = Sep[1]

\* The loop of worker w ran to its end: no break, no exception left it.
Exhausted(w) ==
    th[w].pc \in {"summary", "finally", "done"} /\ ~th[w].brk /\ th[w].exc = ""

\* C8: the names create_payslip is called for are non-null values of the name
\* column in order of first appearance, none skipped, none twice; each
\* document is built from the first row of its name; a loop that runs to its
\* end has visited every non-null name.
C8_FirstSeenOrderOnce ==
    \A w \in Threads :
        name_column \in th[w].df.cols
        => LET cells == Column(th[w].df, name_column)
               v == Visited(w)
               first(x) == FirstIndex(cells, x)
           IN  /\ \A i \in 1..Len(v) :
                     /\ v[i] # NaN
                     /\ \E k \in 1..Len(cells) : cells[k] = v[i]
                     /\ \A j \in 1..(i - 1) : first(v[j]) < first(v[i])
                     /\ \A k \in 1..(first(v[i]) - 1) :
                           cells[k] # NaN => \E j \in 1..(i - 1) : v[j] = cells[k]
                     /\ \E s \in Suffixes :
                           th[w].calls[i].path =
                               pdf_path([cols |-> th[w].df.cols,
                                         rows |-> <<th[w].df.rows[first(v[i])]>>], s)
               /\ Exhausted(w)
                  => \A k \in 1..Len(cells) :
                        cells[k] # NaN => \E i \in 1..Len(v) : v[i] = cells[k]

\* A name on two rows with different codes was rendered once, from its first
\* row, and the loop ended.
C8_Witness ==
    \E w \in Threads :
        /\ Exhausted(w)
        /\ Len(th[w].df.rows) = 2
        /\ code_col \in th[w].df.cols
        /\ th[w].df.rows[1][name_column] = th[w].df.rows[2][name_column]
        /\ th[w].df.rows[1][code_col] = <<"num", "7", ".", "0">>
        /\ th[w].df.rows[2][code_col] = NaN
        /\ Len(th[w].calls) = 1

\* C9: no worker thread reads or writes a widget except through .after.
C9_WidgetsOnlyViaAfter == direct = {}

\* C10: while a worker has not left its per-employee loop, a set stop flag
\* stays set.
C10_CancelNeverLost ==
    [][(stop_requested /\ \E w \in Threads :
                              th[w].pc \in {"read", "loop", "render", "log"})
       => stop_requested']_vars

\* No worker is running and the event loop has run every callback posted.
Quiet == Alive = {} /\ afterq = <<>>

\* The controls as they are between conversions.
Idle ==
    /\ convert_btn = "normal"
    /\ cancel_btn = "disabled"
    /\ prog_value = 0
    /\ current_thread = 0

\* C11: while a worker runs, Cancel is enabled and Convert is disabled; once
\* the workers have ended and their callbacks have run, the controls are
\* idle again: Convert enabled, Cancel disabled, progress 0, no thread kept.
C11_ControlsFollowWorker ==
    /\ Alive # {} => cancel_btn = "normal" /\ convert_btn = "disabled"
    /\ (Started # {} /\ Quiet) => Idle

=============================================================================
